---- MODULE Spec2Model ----
(***************************************************************************)
(* Model of min_hamming_tri.py: minimum Hamming distance of binary vectors *)
(* with triangle-inequality pruning and bit-sampling buckets.              *)
(*                                                                         *)
(* Python lists are TLA+ sequences.  The code's loop indices are 0-based   *)
(* and are kept as in the code; element k of a Python list is element k+1  *)
(* of the sequence that models it.                                         *)
(***************************************************************************)
EXTENDS Integers, Sequences, FiniteSets, TLC

VARIABLES scan, cls, agg, drv

vars == <<scan, cls, agg, drv>>

----------------------------------------------------------------------------
(* Bounds of the explored inputs. *)

\* largest vector length
MaxLength == 3
\* largest number of vectors handed to the scanner and the bucketer
MaxVectors == 3

\* float('inf'): larger than every distance and every seed of the model
Inf == 1000000
\* the ValueError of calculate_hamming_distance, as a value no distance takes
ValueError == -1

Bits == {0, 1}
VectorsOfLength(L) == [1..L -> Bits]
Min2(a, b) == IF a <= b THEN a ELSE b
Range(s) == {s[k] : k \in 1..Len(s)}

----------------------------------------------------------------------------
(* calculate_hamming_distance *)

RECURSIVE CountDiff(_, _, _)
CountDiff(vec1, vec2, k) ==
    IF k = 0 THEN 0
    ELSE CountDiff(vec1, vec2, k - 1) + (IF vec1[k] # vec2[k] THEN 1 ELSE 0)

calculate_hamming_distance(vec1, vec2) ==
    IF Len(vec1) # Len(vec2) THEN ValueError
    ELSE CountDiff(vec1, vec2, Len(vec1))

----------------------------------------------------------------------------
(* compute_min_hamming, one loop iteration per step.  The record holds the *)
(* function's arguments, locals and return value; skipped_at is a history  *)
(* field (not in the code) recording which pairs took the skip branch.     *)

ScanIdle == [pc |-> "idle", vectors |-> <<>>, curr_min |-> 0, min_hamming |-> 0,
             total_pairs |-> 0, skipped_pairs |-> 0, first_distances |-> <<>>,
             i |-> 0, j |-> 0, ret |-> <<>>, skipped_at |-> {}]

ScanCall(vectors, curr_min) ==
    [ScanIdle EXCEPT !.pc = "start", !.vectors = vectors, !.curr_min = curr_min]

\* lines 49-51: fewer than two vectors
TooFew(vectors) == Len(vectors) < 2

ScanEarlyReturnStep(st) ==
    [st EXCEPT !.pc = "done", !.ret = <<Inf, 0, 0>>]

\* lines 53-62
ScanSetupStep(st) ==
    [st EXCEPT !.pc = "ref_loop", !.min_hamming = st.curr_min,
               !.skipped_pairs = 0, !.total_pairs = 0,
               !.first_distances = <<>>, !.i = 1]

\* lines 62-67: one iteration of the loop over the reference distances
RefStepBodyCountsSkipped(st) ==
    LET hamming_distance ==
            calculate_hamming_distance(st.vectors[1], st.vectors[st.i + 1])
    IN  [st EXCEPT !.total_pairs = @ + 1,
                   !.skipped_pairs = @ + 1,
                   !.first_distances = Append(@, hamming_distance),
                   !.min_hamming = Min2(@, hamming_distance),
                   !.i = @ + 1]

RefStepBodyNoCount(st) ==
    LET hamming_distance ==
            calculate_hamming_distance(st.vectors[1], st.vectors[st.i + 1])
    IN  [st EXCEPT !.first_distances = Append(@, hamming_distance),
                   !.min_hamming = Min2(@, hamming_distance),
                   !.i = @ + 1]

RefStepBody(st) ==
    LET hamming_distance ==
            calculate_hamming_distance(st.vectors[1], st.vectors[st.i + 1])
    IN  [st EXCEPT !.total_pairs = @ + 1,
                   !.first_distances = Append(@, hamming_distance),
                   !.min_hamming = Min2(@, hamming_distance),
                   !.i = @ + 1]

\* lines 70-71: the nested range() loops; the position after (i, j), with
\* i = num_of_vectors once both loops are exhausted
FirstPair(n) == IF 2 < n THEN <<1, 2>> ELSE <<n, n>>
NextPair(i, j, n) ==
    IF j + 1 < n THEN <<i, j + 1>>
    ELSE IF i + 2 < n THEN <<i + 1, i + 2>>
    ELSE <<n, n>>

\* end of the first loop, entry of the second
RefDoneStep(st) ==
    LET p == FirstPair(Len(st.vectors))
    IN  [st EXCEPT !.pc = "pair_loop", !.i = p[1], !.j = p[2]]

\* lines 75-76
LowBarSum(di, dj) == di + dj

low_bar(di, dj) ==
    IF di - dj >= dj - di THEN di - dj ELSE dj - di

\* line 79
SkipTestNonStrict(bar, min_hamming) == bar >= min_hamming

SkipTestReversed(bar, min_hamming) == bar < min_hamming

SkipTest(bar, min_hamming) == bar > min_hamming

PairBar(st) == low_bar(st.first_distances[st.i], st.first_distances[st.j])

\* lines 72, 79-81: the pair is skipped
PairSkipStep(st) ==
    LET p == NextPair(st.i, st.j, Len(st.vectors))
    IN  [st EXCEPT !.total_pairs = @ + 1,
                   !.skipped_pairs = @ + 1,
                   !.skipped_at = @ \cup {<<st.i, st.j>>},
                   !.i = p[1], !.j = p[2]]

\* line 85
FoldTakesLast(min_hamming, hamming_distance) == hamming_distance

Fold(min_hamming, hamming_distance) == Min2(min_hamming, hamming_distance)

\* lines 72, 83-85: the exact distance is computed
PairComputeStep(st) ==
    LET p == NextPair(st.i, st.j, Len(st.vectors))
        hamming_distance ==
            calculate_hamming_distance(st.vectors[st.i + 1], st.vectors[st.j + 1])
    IN  [st EXCEPT !.total_pairs = @ + 1,
                   !.min_hamming = Fold(@, hamming_distance),
                   !.i = p[1], !.j = p[2]]

\* line 87
ScanReturnStep(st) ==
    [st EXCEPT !.pc = "done",
               !.ret = <<st.min_hamming, st.total_pairs, st.skipped_pairs>>]

\* the step the function takes from st
ScanStep(st) ==
    CASE st.pc = "start" /\ TooFew(st.vectors) -> ScanEarlyReturnStep(st)
      [] st.pc = "start" /\ ~TooFew(st.vectors) -> ScanSetupStep(st)
      [] st.pc = "ref_loop" /\ st.i < Len(st.vectors) -> RefStepBody(st)
      [] st.pc = "ref_loop" /\ st.i >= Len(st.vectors) -> RefDoneStep(st)
      [] st.pc = "pair_loop" /\ st.i < Len(st.vectors)
            /\ SkipTest(PairBar(st), st.min_hamming) -> PairSkipStep(st)
      [] st.pc = "pair_loop" /\ st.i < Len(st.vectors)
            /\ ~SkipTest(PairBar(st), st.min_hamming) -> PairComputeStep(st)
      [] st.pc = "pair_loop" /\ st.i >= Len(st.vectors) -> ScanReturnStep(st)
      [] OTHER -> st

RECURSIVE ScanRun(_)
ScanRun(st) == IF st.pc \in {"done", "idle"} THEN st ELSE ScanRun(ScanStep(st))

\* the whole call
compute_min_hamming(vectors, curr_min) == ScanRun(ScanCall(vectors, curr_min)).ret
\* the pairs (i, j), 0-based, the call skips
SkippedPairsOf(vectors, curr_min) == ScanRun(ScanCall(vectors, curr_min)).skipped_at

----------------------------------------------------------------------------
(* classify_vectors_by_random_bits, one loop iteration per step.  indices  *)
(* is the array np.random.choice returns (0-based positions); groups is    *)
(* the defaultdict, as the sequence of its (key, list) entries in          *)
(* insertion order.                                                        *)

ClsIdle == [pc |-> "idle", vectors |-> <<>>, num_of_bits |-> 0, indices |-> <<>>,
            groups |-> <<>>, k |-> 0, ret |-> <<>>]

ClsCall(vectors, num_of_bits) ==
    [ClsIdle EXCEPT !.pc = "start", !.vectors = vectors, !.num_of_bits = num_of_bits]

\* line 110: the arrays np.random.choice(vector_length, num_of_bits,
\* replace=False) can return; none when num_of_bits > vector_length
IndexChoices(vector_length, num_of_bits) ==
    {ix \in [1..num_of_bits -> 0..(vector_length - 1)] :
        \A a, b \in 1..num_of_bits : a # b => ix[a] # ix[b]}

\* line 114
KeyOf(vec, indices) == [t \in 1..Len(indices) |-> vec[indices[t] + 1]]

\* line 115: groups[key].append(vec)
GroupsOverwrite(groups, key, vec) ==
    IF \E g \in 1..Len(groups) : groups[g].key = key
    THEN [g \in 1..Len(groups) |->
            IF groups[g].key = key
            THEN [groups[g] EXCEPT !.members = <<vec>>]
            ELSE groups[g]]
    ELSE Append(groups, [key |-> key, members |-> <<vec>>])

GroupsAppend(groups, key, vec) ==
    IF \E g \in 1..Len(groups) : groups[g].key = key
    THEN [g \in 1..Len(groups) |->
            IF groups[g].key = key
            THEN [groups[g] EXCEPT !.members = Append(@, vec)]
            ELSE groups[g]]
    ELSE Append(groups, [key |-> key, members |-> <<vec>>])

\* lines 106-107
ClsEmptyReturnStep(st) == [st EXCEPT !.pc = "done", !.ret = <<>>]

\* lines 109-111, for the array the random draw returned
ClsChooseStep(st, indices) ==
    [st EXCEPT !.pc = "loop", !.indices = indices, !.groups = <<>>, !.k = 0]

\* line 110 raising ValueError: more positions asked than the vector has
ClsChooseFailsStep(st) == [st EXCEPT !.pc = "error"]

\* lines 113-115
ClsAddStep(st) ==
    LET vec == st.vectors[st.k + 1]
    IN  [st EXCEPT !.groups = GroupsAppend(@, KeyOf(vec, st.indices), vec),
                   !.k = @ + 1]

\* line 117: list(groups.values())
ClsReturnStep(st) ==
    [st EXCEPT !.pc = "done",
               !.ret = [g \in 1..Len(st.groups) |-> st.groups[g].members]]

RECURSIVE ClsLoop(_)
ClsLoop(st) ==
    IF st.k < Len(st.vectors) THEN ClsLoop(ClsAddStep(st)) ELSE ClsReturnStep(st)

\* the whole call, for the array the random draw returned
classify_vectors_by_random_bits(vectors, num_of_bits, indices) ==
    IF vectors = <<>> THEN <<>>
    ELSE ClsLoop(ClsChooseStep(ClsCall(vectors, num_of_bits), indices)).ret

----------------------------------------------------------------------------
(* analyze_hamming_groups, one group per step. *)

AggIdle == [pc |-> "idle", groups |-> <<>>, curr_min |-> 0,
            min_hamming_overall |-> 0, total_count |-> 0, skipped_count |-> 0,
            g |-> 0, ret |-> <<>>]

AggCall(groups, curr_min) ==
    [AggIdle EXCEPT !.pc = "start", !.groups = groups, !.curr_min = curr_min]

\* lines 141-143
AggSetupStep(st) ==
    [st EXCEPT !.pc = "loop", !.min_hamming_overall = st.curr_min,
               !.total_count = 0, !.skipped_count = 0, !.g = 0]

\* line 149
AggFoldTakesLast(min_hamming_overall, min_hamming) == min_hamming

AggFold(min_hamming_overall, min_hamming) == Min2(min_hamming_overall, min_hamming)

\* lines 146-152: one iteration of the loop over the groups
AggGroupStep(st) ==
    LET res == compute_min_hamming(st.groups[st.g + 1], st.min_hamming_overall)
    IN  [st EXCEPT !.min_hamming_overall = AggFold(@, res[1]),
                   !.skipped_count = @ + res[3],
                   !.total_count = @ + res[2],
                   !.g = @ + 1]

\* line 154
AggReturnStep(st) ==
    [st EXCEPT !.pc = "done",
               !.ret = <<st.min_hamming_overall, st.total_count, st.skipped_count>>]

RECURSIVE AggLoop(_)
AggLoop(st) ==
    IF st.g < Len(st.groups) THEN AggLoop(AggGroupStep(st)) ELSE AggReturnStep(st)

\* the whole call
analyze_hamming_groups(groups, curr_min) ==
    AggLoop(AggSetupStep(AggCall(groups, curr_min))).ret

----------------------------------------------------------------------------
(* main, one loop iteration per step.  vectors, length, samples and        *)
(* iterations are the parsed arguments; out is what the run ends with.     *)

DrvIdle == [pc |-> "idle", vectors |-> 0, length |-> 0, samples |-> 0,
            iterations |-> 0, skipped |-> 0, total |-> 0, min_distance |-> 0,
            num_of_lsh_bits |-> 0, binary_vectors |-> <<>>, s |-> 0, it |-> 0,
            out |-> "none"]

DrvCall(vectors, length, samples, iterations) ==
    [DrvIdle EXCEPT !.pc = "start", !.vectors = vectors, !.length = length,
                    !.samples = samples, !.iterations = iterations]

\* line 190: round(math.log2(m / math.log2(m))) in double arithmetic, for
\* 2 <= m < 400: the value changes at m = 9, 27, 70 and 168
LshBitsOfLog2(m) ==
    IF m < 3 THEN 1 ELSE IF m < 6 THEN 2 ELSE IF m < 12 THEN 3 ELSE 4

LshBits(m) ==
    IF m < 9 THEN 1 ELSE IF m < 27 THEN 2 ELSE IF m < 70 THEN 3
    ELSE IF m < 168 THEN 4 ELSE 5

\* line 190 raising: math.log2(0) is a ValueError, and math.log2(1) = 0
\* makes the division a ZeroDivisionError
LshBitsRaises(m) == m < 2
LshBitsError(m) == IF m = 1 THEN "ZeroDivisionError" ELSE "ValueError"

\* lines 185-190
DrvSetupStep(st) ==
    [st EXCEPT !.pc = "samples", !.skipped = 0, !.total = 0,
               !.min_distance = st.length + 1,
               !.num_of_lsh_bits = LshBits(st.vectors), !.s = 0]

DrvSetupFailsStep(st) ==
    [st EXCEPT !.pc = "error", !.skipped = 0, !.total = 0,
               !.min_distance = st.length + 1,
               !.out = LshBitsError(st.vectors)]

\* lines 193-194, for the vectors the random draw returned
DrvSampleStep(st, binary_vectors) ==
    [st EXCEPT !.pc = "rounds", !.binary_vectors = binary_vectors,
               !.s = @ + 1, !.it = 0]

\* lines 196-200, for the positions the random draw returned
DrvRoundStep(st, indices) ==
    LET res == analyze_hamming_groups(
                   classify_vectors_by_random_bits(st.binary_vectors,
                                                   st.num_of_lsh_bits, indices),
                   st.min_distance)
    IN  [st EXCEPT !.total = @ + res[2],
                   !.skipped = @ + res[3],
                   !.min_distance = Min2(@, res[1]),
                   !.it = @ + 1]

\* line 197 raising the ValueError of np.random.choice (line 110)
DrvRoundFailsStep(st) == [st EXCEPT !.pc = "error", !.out = "ValueError"]

\* line 196 exhausted: back to line 193
DrvRoundsDoneStep(st) == [st EXCEPT !.pc = "samples"]

\* lines 202-203; the printed rate is skipped * 100 / total, kept as the
\* two integers
DrvPercentageStep(st) ==
    [st EXCEPT !.pc = "printed", !.out = <<st.skipped * 100, st.total>>]

\* line 202 dividing by zero
DrvDivisionByZeroStep(st) ==
    [st EXCEPT !.pc = "error", !.out = "ZeroDivisionError"]

----------------------------------------------------------------------------
(* Specification of the scanner: any list of equal-length vectors and any  *)
(* finite seed, then the call step by step.                                *)


InitScan ==
    /\ \E L \in 1..MaxLength, n \in 0..MaxVectors :
          \E V \in [1..n -> VectorsOfLength(L)], s \in 0..(L + 1) :
              scan = ScanCall(V, s)
    /\ cls = ClsIdle /\ agg = AggIdle /\ drv = DrvIdle

ScanEarlyReturn ==
    /\ scan.pc = "start" /\ TooFew(scan.vectors)
    /\ scan' = ScanStep(scan)
    /\ UNCHANGED <<cls, agg, drv>>

ScanSetup ==
    /\ scan.pc = "start" /\ ~TooFew(scan.vectors)
    /\ scan' = ScanStep(scan)
    /\ UNCHANGED <<cls, agg, drv>>

RefStep ==
    /\ scan.pc = "ref_loop" /\ scan.i < Len(scan.vectors)
    /\ scan' = ScanStep(scan)
    /\ UNCHANGED <<cls, agg, drv>>

RefDone ==
    /\ scan.pc = "ref_loop" /\ scan.i >= Len(scan.vectors)
    /\ scan' = ScanStep(scan)
    /\ UNCHANGED <<cls, agg, drv>>

PairSkip ==
    /\ scan.pc = "pair_loop" /\ scan.i < Len(scan.vectors)
    /\ SkipTest(PairBar(scan), scan.min_hamming)
    /\ scan' = ScanStep(scan)
    /\ UNCHANGED <<cls, agg, drv>>

PairCompute ==
    /\ scan.pc = "pair_loop" /\ scan.i < Len(scan.vectors)
    /\ ~SkipTest(PairBar(scan), scan.min_hamming)
    /\ scan' = ScanStep(scan)
    /\ UNCHANGED <<cls, agg, drv>>

ScanReturn ==
    /\ scan.pc = "pair_loop" /\ scan.i >= Len(scan.vectors)
    /\ scan' = ScanStep(scan)
    /\ UNCHANGED <<cls, agg, drv>>

NextScan ==
    \/ ScanEarlyReturn \/ ScanSetup \/ RefStep \/ RefDone
    \/ PairSkip \/ PairCompute \/ ScanReturn

SpecScan == InitScan /\ [][NextScan]_vars

----------------------------------------------------------------------------
(* Reference definitions the scanner is compared with. *)

\* the 0-based index pairs (i, j), i < j, of a list of n vectors
AllPairs(n) == {p \in (0..(n - 1)) \X (0..(n - 1)) : p[1] < p[2]}
\* the pairs that do not involve the reference vector
NonRefPairs(n) == {p \in AllPairs(n) : p[1] >= 1}
PairDistance(V, p) == calculate_hamming_distance(V[p[1] + 1], V[p[2] + 1])
\* brute-force minimum over all pairs, for two vectors or more
BruteForceMin(V) ==
    CHOOSE d \in 0..Len(V[1]) :
        /\ \E p \in AllPairs(Len(V)) : PairDistance(V, p) = d
        /\ \A p \in AllPairs(Len(V)) : PairDistance(V, p) >= d
AbsDiff(a, b) == IF a >= b THEN a - b ELSE b - a
ScanDone == scan.pc = "done"
ScanN == Len(scan.vectors)

\* C1 as stated: for two vectors or more and any finite seed, the returned
\* minimum equals the brute-force minimum over all pairs of V.
C1_AsStated ==
    (ScanDone /\ ScanN >= 2) => scan.ret[1] = BruteForceMin(scan.vectors)

\* C1 amended: for two vectors or more and any finite seed, the returned
\* minimum equals the smaller of the seed and the brute-force minimum over
\* all pairs of V.
C1_MinIsSeedOrBruteForce ==
    (ScanDone /\ ScanN >= 2) =>
        scan.ret[1] = Min2(scan.curr_min, BruteForceMin(scan.vectors))

\* a finished call that skipped a pair and returned less than its seed
C1_Witness ==
    /\ ScanDone /\ ScanN >= 3
    /\ scan.ret[3] >= 1
    /\ scan.ret[1] < scan.curr_min
    /\ scan.ret[1] = BruteForceMin(scan.vectors)

\* C2: for every vector list, also the empty one and a singleton, the
\* returned total_pairs is |V| * (|V| - 1) / 2 whatever was skipped.
C2_TotalIsAllPairs ==
    ScanDone => scan.ret[2] = (ScanN * (ScanN - 1)) \div 2

\* a finished call on three vectors, one pair skipped, three pairs counted
C2_Witness ==
    /\ ScanDone /\ ScanN = 3
    /\ scan.ret[3] = 1 /\ scan.ret[2] = 3

\* C3: skipped_pairs <= total_pairs; the n-1 reference comparisons are never
\* counted as skipped, so skipped_pairs <= (n-1)(n-2)/2 for n >= 2; every
\* skipped pair is a non-reference pair and is counted once.
C3_SkippedBound ==
    /\ scan.pc \in {"ref_loop", "pair_loop"} =>
          /\ scan.skipped_pairs <= scan.total_pairs
          /\ scan.skipped_pairs = Cardinality(scan.skipped_at)
          /\ scan.skipped_at \subseteq NonRefPairs(ScanN)
          /\ (scan.pc = "ref_loop" => scan.skipped_pairs = 0)
    /\ ScanDone =>
          /\ scan.ret[3] <= scan.ret[2]
          /\ ScanN >= 2 => /\ scan.ret[3] <= scan.ret[2] - (ScanN - 1)
                           /\ scan.ret[3] <= ((ScanN - 1) * (ScanN - 2)) \div 2
          /\ scan.ret[3] = Cardinality(scan.skipped_at)
          /\ scan.skipped_at \subseteq NonRefPairs(ScanN)

\* a finished call in which every non-reference pair was skipped
C3_Witness ==
    /\ ScanDone /\ ScanN >= 3
    /\ scan.skipped_at = NonRefPairs(ScanN)
    /\ scan.ret[3] = scan.ret[2] - (ScanN - 1)

\* C8 as stated: for a list of any size, the returned minimum is at most
\* the seed.
C8_AsStated ==
    ScanDone => scan.ret[1] <= scan.curr_min

\* C8 amended: for two vectors or more the returned minimum is at most the
\* seed; for fewer than two vectors the call returns (inf, 0, 0), which is
\* above every finite seed.
C8_NoRegressFromTwo ==
    ScanDone =>
        /\ ScanN >= 2 => scan.ret[1] <= scan.curr_min
        /\ ScanN < 2 => scan.ret = <<Inf, 0, 0>> /\ scan.ret[1] > scan.curr_min

\* a finished call whose every distance is above the seed: the seed is kept
C8_Witness ==
    /\ ScanDone /\ ScanN >= 2
    /\ BruteForceMin(scan.vectors) > scan.curr_min
    /\ scan.ret[1] = scan.curr_min

\* the scenario of the specification's section 8
ScenarioVectors == <<(<<0, 0, 0>>), (<<0, 0, 1>>), (<<1, 1, 1>>)>>
ScenarioSeed == Len(ScenarioVectors[1]) + 1

\* what holds whenever the second loop is running
C10_State ==
    /\ scan.pc = "pair_loop" =>
          /\ Len(scan.first_distances) = ScanN - 1
          /\ \A k \in 1..(ScanN - 1) :
                /\ scan.first_distances[k] =
                       calculate_hamming_distance(scan.vectors[1], scan.vectors[k + 1])
                /\ scan.min_hamming <= scan.first_distances[k]
    /\ (ScanDone /\ scan.vectors = ScenarioVectors /\ scan.curr_min = ScenarioSeed)
          => scan.ret = <<1, 3, 1>>

\* what one iteration of the second loop does to the pair (i, j)
C10_Step ==
    (scan.pc = "pair_loop" /\ scan.i < ScanN) =>
        LET bound == AbsDiff(
                calculate_hamming_distance(scan.vectors[1], scan.vectors[scan.i + 1]),
                calculate_hamming_distance(scan.vectors[1], scan.vectors[scan.j + 1]))
            exact == calculate_hamming_distance(scan.vectors[scan.i + 1],
                                                scan.vectors[scan.j + 1])
        IN  /\ 1 <= scan.i /\ scan.i < scan.j /\ scan.j < ScanN
            /\ \/ scan'.i > scan.i
               \/ scan'.i = scan.i /\ scan'.j > scan.j
            /\ IF bound > scan.min_hamming
               THEN /\ scan'.skipped_pairs = scan.skipped_pairs + 1
                    /\ scan'.skipped_at = scan.skipped_at \cup {<<scan.i, scan.j>>}
                    /\ scan'.min_hamming = scan.min_hamming
               ELSE /\ scan'.skipped_pairs = scan.skipped_pairs
                    /\ scan'.skipped_at = scan.skipped_at
                    /\ scan'.min_hamming = Min2(scan.min_hamming, exact)

----------------------------------------------------------------------------
(* Specification of the bucketer: any list of equal-length vectors and any *)
(* number of positions, then the call step by step.                        *)

\* largest vector length and number of vectors handed to the bucketer
MaxClsLength == 2
MaxClsVectors == 3

InitCls ==
    /\ \E L \in 1..MaxClsLength, n \in 0..MaxClsVectors :
          \E V \in [1..n -> VectorsOfLength(L)], b \in 0..(L + 1) :
              cls = ClsCall(V, b)
    /\ scan = ScanIdle /\ agg = AggIdle /\ drv = DrvIdle

ClsEmptyReturn ==
    /\ cls.pc = "start" /\ cls.vectors = <<>>
    /\ cls' = ClsEmptyReturnStep(cls)
    /\ UNCHANGED <<scan, agg, drv>>

ClsChoose ==
    /\ cls.pc = "start" /\ cls.vectors # <<>>
    /\ \E indices \in IndexChoices(Len(cls.vectors[1]), cls.num_of_bits) :
          cls' = ClsChooseStep(cls, indices)
    /\ UNCHANGED <<scan, agg, drv>>

ClsChooseFails ==
    /\ cls.pc = "start" /\ cls.vectors # <<>>
    /\ cls.num_of_bits > Len(cls.vectors[1])
    /\ cls' = ClsChooseFailsStep(cls)
    /\ UNCHANGED <<scan, agg, drv>>

ClsAdd ==
    /\ cls.pc = "loop" /\ cls.k < Len(cls.vectors)
    /\ cls' = ClsAddStep(cls)
    /\ UNCHANGED <<scan, agg, drv>>

ClsReturn ==
    /\ cls.pc = "loop" /\ cls.k >= Len(cls.vectors)
    /\ cls' = ClsReturnStep(cls)
    /\ UNCHANGED <<scan, agg, drv>>

NextCls ==
    \/ ClsEmptyReturn \/ ClsChoose \/ ClsChooseFails \/ ClsAdd \/ ClsReturn

SpecCls == InitCls /\ [][NextCls]_vars

\* how often vec occurs in the list
RECURSIVE Occurrences(_, _)
Occurrences(list, vec) ==
    IF list = <<>> THEN 0
    ELSE (IF Head(list) = vec THEN 1 ELSE 0) + Occurrences(Tail(list), vec)
RECURSIVE SumOver(_, _)
SumOver(groups, vec) ==
    IF groups = <<>> THEN 0
    ELSE Occurrences(Head(groups), vec) + SumOver(Tail(groups), vec)
AgreeAt(v, w, indices) ==
    \A t \in 1..Len(indices) : v[indices[t] + 1] = w[indices[t] + 1]
ClsDone == cls.pc = "done"

\* C4: the returned groups partition the input: no group is empty, every
\* occurrence of an input vector is in exactly one group, the groups hold
\* nothing else, and two vectors share a group exactly when they agree at
\* all the chosen positions; the empty input returns the empty list.
C4_GroupsPartitionInput ==
    ClsDone =>
        /\ cls.vectors = <<>> => cls.ret = <<>>
        /\ \A g \in 1..Len(cls.ret) : cls.ret[g] # <<>>
        /\ \A g \in 1..Len(cls.ret) : Range(cls.ret[g]) \subseteq Range(cls.vectors)
        /\ \A vec \in Range(cls.vectors) :
              /\ SumOver(cls.ret, vec) = Occurrences(cls.vectors, vec)
              /\ \E g \in 1..Len(cls.ret) :
                    /\ vec \in Range(cls.ret[g])
                    /\ \A h \in 1..Len(cls.ret) : vec \in Range(cls.ret[h]) => h = g
        /\ \A g, h \in 1..Len(cls.ret) :
              \A v \in Range(cls.ret[g]), w \in Range(cls.ret[h]) :
                  (g = h) <=> AgreeAt(v, w, cls.indices)

\* a finished call with two groups or more, one of them holding two
\* distinct vectors, another vector occurring twice
C4_Witness ==
    /\ ClsDone /\ cls.num_of_bits >= 1
    /\ Len(cls.ret) >= 2
    /\ \E g \in 1..Len(cls.ret) : Cardinality(Range(cls.ret[g])) >= 2
    /\ Len(cls.vectors) = MaxClsVectors

----------------------------------------------------------------------------
(* Specification of the aggregator: any list of groups of equal-length     *)
(* vectors (empty and one-element groups too) and any finite seed, then    *)
(* the call step by step.                                                  *)

\* largest vector length, largest number of groups, and largest number of
\* bits in all the vectors of all the groups together; the vectors have two
\* bits or more (with one bit no skip depends on the seed)
MaxAggLength == 2
MaxGroups == 2
MaxAggBits == 10

RECURSIVE SumTo(_, _)
SumTo(sizes, g) == IF g = 0 THEN 0 ELSE sizes[g] + SumTo(sizes, g - 1)
\* the list cut into consecutive groups of the given sizes
Split(flat, sizes) ==
    [g \in 1..Len(sizes) |->
        SubSeq(flat, SumTo(sizes, g - 1) + 1, SumTo(sizes, g))]

InitAgg ==
    /\ \E L \in 2..MaxAggLength, G \in 0..MaxGroups :
          \E sizes \in [1..G -> 0..(MaxAggBits \div L)] :
              /\ SumTo(sizes, G) * L <= MaxAggBits
              /\ \E flat \in [1..SumTo(sizes, G) -> VectorsOfLength(L)],
                    s \in 0..(L + 1) :
                    agg = AggCall(Split(flat, sizes), s)
    /\ scan = ScanIdle /\ cls = ClsIdle /\ drv = DrvIdle

AggSetup ==
    /\ agg.pc = "start"
    /\ agg' = AggSetupStep(agg)
    /\ UNCHANGED <<scan, cls, drv>>

AggGroup ==
    /\ agg.pc = "loop" /\ agg.g < Len(agg.groups)
    /\ agg' = AggGroupStep(agg)
    /\ UNCHANGED <<scan, cls, drv>>

AggReturn ==
    /\ agg.pc = "loop" /\ agg.g >= Len(agg.groups)
    /\ agg' = AggReturnStep(agg)
    /\ UNCHANGED <<scan, cls, drv>>

NextAgg == AggSetup \/ AggGroup \/ AggReturn

SpecAgg == InitAgg /\ [][NextAgg]_vars

AggDone == agg.pc = "done"
\* the orders in which the groups can be taken
Orders(n) == {f \in [1..n -> 1..n] : \A a, b \in 1..n : a # b => f[a] # f[b]}
Reordered(groups, f) == [g \in 1..Len(groups) |-> groups[f[g]]]

\* C7 as stated: taking the groups in any order gives the same final
\* minimum, the same total_count and the same skipped_count.
C7_AsStated ==
    AggDone =>
        \A f \in Orders(Len(agg.groups)) :
            analyze_hamming_groups(Reordered(agg.groups, f), agg.curr_min) = agg.ret

\* C7 amended: taking the groups in any order gives the same final minimum
\* and the same total_count; skipped_count can depend on the order.
C7_OrderKeepsMinAndTotal ==
    AggDone =>
        \A f \in Orders(Len(agg.groups)) :
            LET other == analyze_hamming_groups(Reordered(agg.groups, f), agg.curr_min)
            IN  other[1] = agg.ret[1] /\ other[2] = agg.ret[2]

\* a finished call on two groups whose other order skips a different number
\* of pairs and still returns the same minimum and total
C7_Witness ==
    /\ AggDone /\ Len(agg.groups) = 2
    /\ LET other == analyze_hamming_groups(<<agg.groups[2], agg.groups[1]>>, agg.curr_min)
       IN  /\ other[3] # agg.ret[3]
           /\ other[1] = agg.ret[1] /\ other[2] = agg.ret[2]
           /\ agg.ret[1] < agg.curr_min

\* the final minimum of a run in which group g is scanned with seed stale[g]
\* in place of the best minimum known when it starts
RECURSIVE StaleMin(_, _, _, _)
StaleMin(groups, stale, g, best) ==
    IF g > Len(groups) THEN best
    ELSE StaleMin(groups, stale, g + 1,
                  Min2(best, compute_min_hamming(groups[g], stale[g])[1]))
\* stale[g] is the best minimum known when group g starts or an older,
\* larger value of it
RECURSIVE IsStale(_, _, _, _)
IsStale(groups, stale, g, best) ==
    IF g > Len(groups) THEN TRUE
    ELSE /\ stale[g] >= best
         /\ IsStale(groups, stale, g + 1,
                    Min2(best, compute_min_hamming(groups[g], stale[g])[1]))
SeedsOf(groups) ==
    IF \E g \in 1..Len(groups) : groups[g] # <<>>
    THEN 0..(Len((CHOOSE g \in Range(groups) : g # <<>>)[1]) + 1)
    ELSE 0..(MaxAggLength + 1)

\* C9: for seeds s <= s2 (s the seed of the call, any of the finite seeds,
\* V any of its groups), the scan of V seeded s2 skips a subset of the
\* pairs the scan seeded s skips (no more skipped pairs, the same total),
\* and both results fold with s to the same minimum; an aggregator run
\* whose groups are seeded with stale minima returns the sequential run's
\* final minimum.
C9_StaleSeedHarmless ==
    AggDone =>
        /\ \A g \in 1..Len(agg.groups) :
              \A s2 \in SeedsOf(agg.groups) :
                  agg.curr_min <= s2 =>
                      LET V == agg.groups[g]
                          s == agg.curr_min
                          fresh == compute_min_hamming(V, s)
                          old == compute_min_hamming(V, s2)
                      IN  /\ SkippedPairsOf(V, s2) \subseteq SkippedPairsOf(V, s)
                          /\ old[3] <= fresh[3]
                          /\ old[2] = fresh[2]
                          /\ Min2(s, old[1]) = Min2(s, fresh[1])
        /\ \A stale \in [1..Len(agg.groups) -> 0..agg.curr_min] :
              IsStale(agg.groups, stale, 1, agg.curr_min) =>
                  StaleMin(agg.groups, stale, 1, agg.curr_min) = agg.ret[1]

\* a finished call with a group that skips fewer pairs under the original
\* seed than under the minimum known when the group started
C9_Witness ==
    /\ AggDone /\ Len(agg.groups) = 2
    /\ LET V == agg.groups[2]
           best == Min2(agg.curr_min, compute_min_hamming(agg.groups[1], agg.curr_min)[1])
       IN  /\ best < agg.curr_min
           /\ SkippedPairsOf(V, agg.curr_min) # SkippedPairsOf(V, best)
           /\ SkippedPairsOf(V, agg.curr_min) \subseteq SkippedPairsOf(V, best)
           /\ StaleMin(agg.groups, <<agg.curr_min, agg.curr_min>>, 1, agg.curr_min)
                  = agg.ret[1]

----------------------------------------------------------------------------
(* Specification of the trial driver: any four arguments, any random       *)
(* sample and any random choice of positions.                              *)

\* largest --vectors, --length, --samples and --iterations, and the largest
\* number of bits in one sample (vectors * length)
MaxDrvVectors == 3
MaxDrvLength == 2
MaxSamples == 2
MaxIterations == 2
MaxDrvBits == 6

InitDrv ==
    /\ \E vectors \in 0..MaxDrvVectors, length \in 0..MaxDrvLength,
          samples \in 0..MaxSamples, iterations \in 0..MaxIterations :
          /\ vectors * length <= MaxDrvBits
          /\ drv = DrvCall(vectors, length, samples, iterations)
    /\ scan = ScanIdle /\ cls = ClsIdle /\ agg = AggIdle

DrvSetup ==
    /\ drv.pc = "start" /\ ~LshBitsRaises(drv.vectors)
    /\ drv' = DrvSetupStep(drv)
    /\ UNCHANGED <<scan, cls, agg>>

DrvSetupFails ==
    /\ drv.pc = "start" /\ LshBitsRaises(drv.vectors)
    /\ drv' = DrvSetupFailsStep(drv)
    /\ UNCHANGED <<scan, cls, agg>>

DrvSample ==
    /\ drv.pc = "samples" /\ drv.s < drv.samples
    /\ \E binary_vectors \in [1..drv.vectors -> VectorsOfLength(drv.length)] :
          drv' = DrvSampleStep(drv, binary_vectors)
    /\ UNCHANGED <<scan, cls, agg>>

DrvRound ==
    /\ drv.pc = "rounds" /\ drv.it < drv.iterations
    /\ \E indices \in IndexChoices(drv.length, drv.num_of_lsh_bits) :
          drv' = DrvRoundStep(drv, indices)
    /\ UNCHANGED <<scan, cls, agg>>

DrvRoundFails ==
    /\ drv.pc = "rounds" /\ drv.it < drv.iterations
    /\ drv.num_of_lsh_bits > drv.length
    /\ drv' = DrvRoundFailsStep(drv)
    /\ UNCHANGED <<scan, cls, agg>>

DrvRoundsDone ==
    /\ drv.pc = "rounds" /\ drv.it >= drv.iterations
    /\ drv' = DrvRoundsDoneStep(drv)
    /\ UNCHANGED <<scan, cls, agg>>

DrvPercentage ==
    /\ drv.pc = "samples" /\ drv.s >= drv.samples
    /\ drv.total # 0
    /\ drv' = DrvPercentageStep(drv)
    /\ UNCHANGED <<scan, cls, agg>>

DrvDivisionByZero ==
    /\ drv.pc = "samples" /\ drv.s >= drv.samples
    /\ drv.total = 0
    /\ drv' = DrvDivisionByZeroStep(drv)
    /\ UNCHANGED <<scan, cls, agg>>

NextDrv ==
    \/ DrvSetup \/ DrvSetupFails \/ DrvSample \/ DrvRound \/ DrvRoundFails
    \/ DrvRoundsDone \/ DrvPercentage \/ DrvDivisionByZero

SpecDrv == InitDrv /\ [][NextDrv]_vars

\* the loops are over and line 202 is next
AtPercentage == drv.pc = "samples" /\ drv.s >= drv.samples

\* C6 as stated: the total is zero at the percentage step only if
\* samples = 0, iterations = 0 or vectors < 2.
C6_AsStated ==
    (AtPercentage /\ drv.total = 0) =>
        (drv.samples = 0 \/ drv.iterations = 0 \/ drv.vectors < 2)

\* C6 amended: the total is zero at the percentage step (and the division
\* fails) only if samples = 0, iterations = 0 or vectors <= 2; with
\* samples >= 1, iterations >= 1 and vectors >= 3 the total is above zero
\* for every sample and every choice of positions.
C6_ZeroTotalOnlyIfDegenerate ==
    /\ (AtPercentage /\ drv.total = 0) =>
          (drv.samples = 0 \/ drv.iterations = 0 \/ drv.vectors <= 2)
    /\ (drv.pc = "error" /\ drv.out = "ZeroDivisionError" /\ drv.vectors >= 2) =>
          (drv.samples = 0 \/ drv.iterations = 0 \/ drv.vectors = 2)
    /\ (drv.pc = "printed") => drv.out[2] > 0

\* a run on three vectors that printed its rate with one pair counted per
\* round: every round left one vector alone in its bucket
C6_Witness ==
    /\ drv.pc = "printed" /\ drv.vectors = 3
    /\ drv.samples >= 1 /\ drv.iterations >= 1
    /\ drv.total = drv.samples * drv.iterations
    /\ drv.out[2] = drv.total

----------------------------------------------------------------------------
(* The aggregator on any list of groups together with the driver's runs. *)

InitAggDrv == InitAgg \/ InitDrv

NextAggDrv == NextAgg \/ NextDrv

SpecAggDrv == InitAggDrv /\ [][NextAggDrv]_vars

\* the aggregator's return value against its seed, and the driver's first
\* running minimum
C5_State ==
    /\ AggDone => agg.ret[1] <= agg.curr_min
    /\ (drv.pc = "samples" /\ drv.s = 0) => drv.min_distance = drv.length + 1

\* one group of the aggregator, one bucketing round or any other step of
\* the driver's loops
C5_Step ==
    /\ agg.pc = "loop" =>
          /\ agg'.min_hamming_overall <= agg.min_hamming_overall
          /\ agg'.min_hamming_overall <= agg.curr_min
    /\ drv.pc \in {"samples", "rounds"} =>
          /\ drv'.min_distance <= drv.min_distance
          /\ drv'.min_distance <= drv.length + 1

\* C5: the running minimum never increases: analyze_hamming_groups returns
\* a minimum at most the seed it was given, for every list of groups, and
\* the driver's min_distance, starting from length + 1, is after every
\* bucketing round of every sample at most what it was before.
C5_RunningMinNeverIncreases == []C5_State /\ [][C5_Step]_vars

\* in the second sample, after a round, the running minimum is below every
\* distance of that sample: it was carried over from the first sample
C5_Witness ==
    /\ drv.pc = "rounds" /\ drv.s = 2 /\ drv.it >= 1
    /\ drv.vectors >= 2
    /\ drv.min_distance < BruteForceMin(drv.binary_vectors)
    /\ drv.min_distance < drv.length + 1

====
